---- MODULE Spec2Model ----
(***************************************************************************)
(* Model of the batch simulator of src/BatchSim.py: the Process/Segment    *)
(* data model and the engine BatchSim (initialize, schedule_cpu,           *)
(* schedule_io, handle_segment_complete, run_one_unit, simulate_step, run) *)
(* together with the pairing loop of visualize, which reconstructs the     *)
(* occupancy intervals from the event log.                                 *)
(*                                                                         *)
(* A process is referred to by its position in self.processes (the model's *)
(* object reference); its pid is the field the events carry.               *)
(***************************************************************************)
EXTENDS Integers, Sequences, FiniteSets, TLC

VARIABLES processes, current_index, remaining, time, ready_queue, io_queue,
          cpu_busy, io_busy, events, pc

vars == <<processes, current_index, remaining, time, ready_queue, io_queue,
          cpu_busy, io_busy, events, pc>>

\* Bounds of the enumerated workloads.
MaxProcs == 3
MaxWork == 6

\* Bound of the enumerated workloads that may be misconfigured.
MaxAnyWork == 3

\* Bound of the enumerated workloads with a kind that is neither CPU nor IO.
MaxKindWork == 4

\* Python's None for cpu_busy / io_busy (references are 1..Len(processes)).
None == 0

Kinds == {"CPU", "IO"}

Segment(type, duration) == [type |-> type, duration |-> duration]

Process(pid, segments) == [pid |-> pid, segments |-> segments]

\* ------------------------------------------------------------------------
\* Workloads.

\* Ticks a segment list asks for.
RECURSIVE Work(_)
Work(segs) ==
  IF segs = <<>> THEN 0 ELSE Head(segs).duration + Work(Tail(segs))

\* Non-empty segment lists, durations positive, of total duration <= w.
RECURSIVE SegmentLists(_)
SegmentLists(w) ==
  UNION { { <<Segment(k, d)>> \o rest :
              k \in Kinds, rest \in {<<>>} \cup SegmentLists(w - d) } :
          d \in 1..w }

\* Lists of at most n segment lists of total duration <= w.
RECURSIVE SegmentListLists(_, _)
SegmentListLists(n, w) ==
  {<<>>} \cup
  (IF n = 0 THEN {}
   ELSE UNION { { <<sl>> \o rest : rest \in SegmentListLists(n - 1, w - Work(sl)) } :
                sl \in SegmentLists(w) })

MakeProcesses(sls) == [i \in 1..Len(sls) |-> Process(i, sls[i])]

\* The workload the module itself runs.
tasks ==
  << Process(1, <<Segment("CPU", 5), Segment("IO", 4), Segment("CPU", 3)>>),
     Process(2, <<Segment("CPU", 3), Segment("IO", 2), Segment("CPU", 4)>>),
     Process(3, <<Segment("CPU", 4), Segment("IO", 7), Segment("CPU", 2)>>) >>

\* The workload of the golden-trace scenario.
GoldenWorkload ==
  << Process(1, <<Segment("CPU", 5), Segment("IO", 4), Segment("CPU", 3)>>),
     Process(2, <<Segment("CPU", 3), Segment("IO", 2)>>),
     Process(3, <<Segment("CPU", 4)>>) >>

ValidWorkloads ==
  { MakeProcesses(sls) : sls \in SegmentListLists(MaxProcs, MaxWork) }
    \cup {tasks, GoldenWorkload}

\* Ticks the engine spends on a segment of duration d (one when d <= 0).
Ticks(d) == IF d > 0 THEN d ELSE 1

RECURSIVE AnyWork(_)
AnyWork(segs) ==
  IF segs = <<>> THEN 0 ELSE Ticks(Head(segs).duration) + AnyWork(Tail(segs))

\* Segment lists, the empty one and durations <= 0 included, of at most w ticks.
RECURSIVE AnySegmentLists(_)
AnySegmentLists(w) ==
  {<<>>} \cup
  (IF w <= 0 THEN {}
   ELSE UNION { { <<Segment(k, d)>> \o rest :
                    k \in Kinds, rest \in AnySegmentLists(w - Ticks(d)) } :
                d \in (-1)..w })

\* Lists of at most n such segment lists, of at most w ticks, a process
\* without segments counting for one.
RECURSIVE AnySegmentListLists(_, _)
AnySegmentListLists(n, w) ==
  {<<>>} \cup
  (IF n = 0 \/ w <= 0 THEN {}
   ELSE UNION { { <<sl>> \o rest :
                    rest \in AnySegmentListLists(n - 1, w - Ticks(AnyWork(sl))) } :
                sl \in AnySegmentLists(w) })

AnyWorkloads ==
  { MakeProcesses(sls) : sls \in AnySegmentListLists(MaxProcs, MaxAnyWork) }

\* Segment.type is any string: CPU, IO, and one that is neither.
AllKinds == Kinds \cup {"NET"}

\* Non-empty segment lists of any kind, durations positive, total <= w.
RECURSIVE KindSegmentLists(_)
KindSegmentLists(w) ==
  UNION { { <<Segment(k, d)>> \o rest :
              k \in AllKinds, rest \in {<<>>} \cup KindSegmentLists(w - d) } :
          d \in 1..w }

\* Lists of at most n such segment lists of total duration <= w.
RECURSIVE KindSegmentListLists(_, _)
KindSegmentListLists(n, w) ==
  {<<>>} \cup
  (IF n = 0 THEN {}
   ELSE UNION { { <<sl>> \o rest :
                    rest \in KindSegmentListLists(n - 1, w - Work(sl)) } :
                sl \in KindSegmentLists(w) })

KindWorkloads ==
  { MakeProcesses(sls) : sls \in KindSegmentListLists(MaxProcs, MaxKindWork) }

\* ------------------------------------------------------------------------
\* The engine, as operators on the record of its fields. "raised" is set
\* when a statement raises (IndexError); the statements after it are skipped.

Self ==
  [processes |-> processes, current_index |-> current_index,
   remaining |-> remaining, time |-> time, ready_queue |-> ready_queue,
   io_queue |-> io_queue, cpu_busy |-> cpu_busy, io_busy |-> io_busy,
   events |-> events, raised |-> FALSE]

\* start_next moving the cursor as well as loading the duration.
start_next_advancing(s, p) ==
  IF s.current_index[p] >= Len(s.processes[p].segments) THEN s
  ELSE [s EXCEPT !.remaining[p] =
                   s.processes[p].segments[s.current_index[p] + 1].duration,
                 !.current_index[p] = @ + 1]

\* Process.start_next
start_next(s, p) ==
  IF s.current_index[p] >= Len(s.processes[p].segments) THEN s
  ELSE [s EXCEPT !.remaining[p] =
          s.processes[p].segments[s.current_index[p] + 1].duration]

\* Process.is_finished
is_finished(s, p) == s.current_index[p] >= Len(s.processes[p].segments)

\* BatchSim.__init__
new(procs) ==
  [processes |-> procs,
   current_index |-> [p \in 1..Len(procs) |-> 0],
   remaining |-> [p \in 1..Len(procs) |-> 0],
   time |-> 0, ready_queue |-> <<>>, io_queue |-> <<>>,
   cpu_busy |-> None, io_busy |-> None, events |-> <<>>, raised |-> FALSE]

\* BatchSim.initialize: the loop over self.processes, from process p on.
RECURSIVE initialize_from(_, _)
initialize_from(s, p) ==
  IF p > Len(s.processes) THEN s
  ELSE LET s1 == start_next(s, p)
           s2 == [s1 EXCEPT !.ready_queue = Append(@, p)]
       IN initialize_from(s2, p + 1)

initialize(s) == initialize_from(s, 1)

\* schedule_cpu without the test that the CPU is idle.
schedule_cpu_unguarded(s) ==
  IF s.ready_queue # <<>>
  THEN LET p == Head(s.ready_queue)
       IN [s EXCEPT !.cpu_busy = p,
                    !.ready_queue = Tail(@),
                    !.events = Append(@, <<"CPU", s.processes[p].pid, "start", s.time>>)]
  ELSE s

\* schedule_cpu taking the newest arrival, pop() for pop(0).
schedule_cpu_lifo(s) ==
  IF s.cpu_busy = None /\ s.ready_queue # <<>>
  THEN LET p == s.ready_queue[Len(s.ready_queue)]
       IN [s EXCEPT !.cpu_busy = p,
                    !.ready_queue = SubSeq(@, 1, Len(@) - 1),
                    !.events = Append(@, <<"CPU", s.processes[p].pid, "start", s.time>>)]
  ELSE s

\* BatchSim.schedule_cpu
schedule_cpu(s) ==
  IF s.cpu_busy = None /\ s.ready_queue # <<>>
  THEN LET p == Head(s.ready_queue)
       IN [s EXCEPT !.cpu_busy = p,
                    !.ready_queue = Tail(@),
                    !.events = Append(@, <<"CPU", s.processes[p].pid, "start", s.time>>)]
  ELSE s

\* schedule_io logging the start after the clock has advanced.
schedule_io_late(s) ==
  IF s.io_busy = None /\ s.io_queue # <<>>
  THEN LET p == Head(s.io_queue)
       IN [s EXCEPT !.io_busy = p,
                    !.io_queue = Tail(@),
                    !.events = Append(@, <<"IO", s.processes[p].pid, "start", s.time + 1>>)]
  ELSE s

\* schedule_io with the guard of schedule_cpu left in place.
schedule_io_when_cpu_idle(s) ==
  IF s.cpu_busy = None /\ s.io_queue # <<>>
  THEN LET p == Head(s.io_queue)
       IN [s EXCEPT !.io_busy = p,
                    !.io_queue = Tail(@),
                    !.events = Append(@, <<"IO", s.processes[p].pid, "start", s.time>>)]
  ELSE s

\* BatchSim.schedule_io
schedule_io(s) ==
  IF s.io_busy = None /\ s.io_queue # <<>>
  THEN LET p == Head(s.io_queue)
       IN [s EXCEPT !.io_busy = p,
                    !.io_queue = Tail(@),
                    !.events = Append(@, <<"IO", s.processes[p].pid, "start", s.time>>)]
  ELSE s

\* The queue chosen by a test for CPU instead of the test for IO.
route_by_cpu(s, p) ==
  IF s.processes[p].segments[s.current_index[p] + 1].type = "CPU"
  THEN "ready_queue" ELSE "io_queue"

\* The queue a process is appended to on completion of a segment.
route(s, p) ==
  IF s.processes[p].segments[s.current_index[p] + 1].type = "IO"
  THEN "io_queue" ELSE "ready_queue"

\* handle_segment_complete putting the process at the front of its queue.
handle_segment_complete_front(s, p) ==
  IF s.current_index[p] >= Len(s.processes[p].segments)
  THEN [s EXCEPT !.raised = TRUE]
  ELSE LET s1 == [s EXCEPT !.current_index[p] = @ + 1]
       IN IF is_finished(s1, p) THEN s1
          ELSE LET s2 == start_next(s1, p)
               IN IF route(s2, p) = "io_queue"
                  THEN [s2 EXCEPT !.io_queue = <<p>> \o @]
                  ELSE [s2 EXCEPT !.ready_queue = <<p>> \o @]

\* BatchSim.handle_segment_complete. The print of line 84 indexes
\* proc.segments[proc.current_index] and raises IndexError past its end.
handle_segment_complete(s, p) ==
  IF s.current_index[p] >= Len(s.processes[p].segments)
  THEN [s EXCEPT !.raised = TRUE]
  ELSE LET s1 == [s EXCEPT !.current_index[p] = @ + 1]
       IN IF is_finished(s1, p) THEN s1
          ELSE LET s2 == start_next(s1, p)
               IN IF route(s2, p) = "io_queue"
                  THEN [s2 EXCEPT !.io_queue = Append(@, p)]
                  ELSE [s2 EXCEPT !.ready_queue = Append(@, p)]

\* run_one_unit completing a segment on its last unit without deducting it.
run_one_unit_no_final_decrement(s, p, resource_name) ==
  IF s.remaining[p] > 1
  THEN [self |-> [s EXCEPT !.remaining[p] = @ - 1], ret |-> p]
  ELSE LET s2 == handle_segment_complete(s, p)
       IN IF s2.raised THEN [self |-> s2, ret |-> None]
          ELSE [self |-> [s2 EXCEPT !.events =
                            Append(@, <<resource_name, s2.processes[p].pid, "end", s2.time>>)],
                ret |-> None]

\* run_one_unit logging no end event for a process that has finished.
run_one_unit_silent_finish(s, p, resource_name) ==
  LET s1 == [s EXCEPT !.remaining[p] = @ - 1]
  IN IF s1.remaining[p] > 0 THEN [self |-> s1, ret |-> p]
     ELSE LET s2 == handle_segment_complete(s1, p)
          IN IF s2.raised \/ is_finished(s2, p) THEN [self |-> s2, ret |-> None]
             ELSE [self |-> [s2 EXCEPT !.events =
                               Append(@, <<resource_name, s2.processes[p].pid, "end", s2.time>>)],
                   ret |-> None]

\* run_one_unit completing a segment only once remaining is below zero.
run_one_unit_one_more(s, p, resource_name) ==
  LET s1 == [s EXCEPT !.remaining[p] = @ - 1]
  IN IF s1.remaining[p] >= 0 THEN [self |-> s1, ret |-> p]
     ELSE LET s2 == handle_segment_complete(s1, p)
          IN IF s2.raised THEN [self |-> s2, ret |-> None]
             ELSE [self |-> [s2 EXCEPT !.events =
                               Append(@, <<resource_name, s2.processes[p].pid, "end", s2.time>>)],
                   ret |-> None]

\* BatchSim.run_one_unit: the engine after the call, and the value returned.
run_one_unit(s, p, resource_name) ==
  LET s1 == [s EXCEPT !.remaining[p] = @ - 1]
  IN IF s1.remaining[p] > 0 THEN [self |-> s1, ret |-> p]
     ELSE LET s2 == handle_segment_complete(s1, p)
          IN IF s2.raised THEN [self |-> s2, ret |-> None]
             ELSE [self |-> [s2 EXCEPT !.events =
                               Append(@, <<resource_name, s2.processes[p].pid, "end", s2.time>>)],
                   ret |-> None]

\* The CPU step dropping what run_one_unit returns: cpu_busy is never cleared.
step_cpu_keeping(s) ==
  IF s.cpu_busy # None
  THEN run_one_unit(s, s.cpu_busy, "CPU").self
  ELSE s

\* BatchSim.simulate_step, lines 109-110
step_cpu(s) ==
  IF s.cpu_busy # None
  THEN LET r == run_one_unit(s, s.cpu_busy, "CPU")
       IN IF r.self.raised THEN r.self ELSE [r.self EXCEPT !.cpu_busy = r.ret]
  ELSE s

\* BatchSim.simulate_step, lines 112-113
step_io(s) ==
  IF s.raised THEN s
  ELSE IF s.io_busy # None
  THEN LET r == run_one_unit(s, s.io_busy, "IO")
       IN IF r.self.raised THEN r.self ELSE [r.self EXCEPT !.io_busy = r.ret]
  ELSE s

\* The value of a statement sequence: the one element of a singleton.
Only(S) == CHOOSE x \in S : TRUE

\* simulate_step handling one resource after the other: the CPU's completion
\* and admission, then IO's.
simulate_step_per_resource(s) ==
  Only({ IF s4.raised THEN s4 ELSE [s4 EXCEPT !.time = @ + 1] :
         s4 \in { (IF s3.raised THEN s3 ELSE schedule_io(s3)) :
                  s3 \in { step_io(s2) :
                           s2 \in { (IF s1.raised THEN s1 ELSE schedule_cpu(s1)) :
                                    s1 \in {step_cpu(s)} } } } })

\* simulate_step admitting before it advances the busy resources.
simulate_step_admit_first(s) ==
  Only({ IF s4.raised THEN s4 ELSE [s4 EXCEPT !.time = @ + 1] :
         s4 \in { step_io(s3) :
                  s3 \in { step_cpu(s2) :
                           s2 \in { schedule_io(s1) : s1 \in {schedule_cpu(s)} } } } })

\* simulate_step admitting to IO before admitting to the CPU.
simulate_step_io_first(s) ==
  Only({ IF s2.raised THEN s2
         ELSE Only({ [s4 EXCEPT !.time = @ + 1] :
                     s4 \in { schedule_cpu(s3) : s3 \in {schedule_io(s2)} } }) :
         s2 \in { step_io(s1) : s1 \in {step_cpu(s)} } })

\* BatchSim.simulate_step: the CPU, then IO, then the two admissions, then
\* the clock, each statement on the engine the one before it leaves.
simulate_step(s) ==
  Only({ IF s2.raised THEN s2
         ELSE Only({ [s4 EXCEPT !.time = @ + 1] :
                     s4 \in { schedule_io(s3) : s3 \in {schedule_cpu(s2)} } }) :
         s2 \in { step_io(s1) : s1 \in {step_cpu(s)} } })

\* The loop condition without its test of io_busy.
loop_condition_no_io(s) ==
  s.ready_queue # <<>> \/ s.io_queue # <<>> \/ s.cpu_busy # None

\* The condition of the loop of BatchSim.run
loop_condition(s) ==
  s.ready_queue # <<>> \/ s.io_queue # <<>> \/ s.cpu_busy # None \/ s.io_busy # None

\* ------------------------------------------------------------------------
\* The state machine: construction, then run().

Assign(s, next_pc) ==
  /\ processes' = s.processes
  /\ current_index' = s.current_index
  /\ remaining' = s.remaining
  /\ time' = s.time
  /\ ready_queue' = s.ready_queue
  /\ io_queue' = s.io_queue
  /\ cpu_busy' = s.cpu_busy
  /\ io_busy' = s.io_busy
  /\ events' = s.events
  /\ pc' = IF s.raised THEN "raised" ELSE next_pc

InitWith(workloads) ==
  \E procs \in workloads :
    LET s == new(procs) IN
      /\ processes = s.processes
      /\ current_index = s.current_index
      /\ remaining = s.remaining
      /\ time = s.time
      /\ ready_queue = s.ready_queue
      /\ io_queue = s.io_queue
      /\ cpu_busy = s.cpu_busy
      /\ io_busy = s.io_busy
      /\ events = s.events
      /\ pc = "new"

Init == InitWith(ValidWorkloads)

\* run(), line 122
Initialize ==
  /\ pc = "new"
  /\ \E s \in {initialize(Self)} : Assign(s, "loop")

\* run(), lines 124-126: one iteration of the loop
SimulateStep ==
  /\ pc = "loop"
  /\ loop_condition(Self)
  /\ \E s \in {simulate_step(Self)} : Assign(s, "loop")

\* run(), lines 124 and 128: the loop ends
Finish ==
  /\ pc = "loop"
  /\ ~loop_condition(Self)
  /\ pc' = "done"
  /\ UNCHANGED <<processes, current_index, remaining, time, ready_queue,
                 io_queue, cpu_busy, io_busy, events>>

Next == Initialize \/ SimulateStep \/ Finish

Spec == Init /\ [][Next]_vars

\* run() on a workload that may be misconfigured.
InitAny == InitWith(AnyWorkloads)

SpecAny == InitAny /\ [][Next]_vars

\* run() on a workload whose segments may be of a kind other than CPU and IO.
InitKinds == InitWith(KindWorkloads)

SpecKinds == InitKinds /\ [][Next]_vars

\* run() is a sequential loop: it does not stop while it has a step to take.
LiveSpec == Init /\ [][Next]_vars /\ WF_vars(Next)

\* ------------------------------------------------------------------------
\* BatchSim.visualize, the pairing loop: the occupancies (res, pid, start,
\* end) in the order their end events appear, and the dict temp of the
\* starts still open, after the first n events.
RECURSIVE pair_loop(_, _)
pair_loop(log, n) ==
  IF n = 0 THEN [pair_events |-> <<>>, temp |-> <<>>]
  ELSE LET before == pair_loop(log, n - 1)
           key == <<log[n][1], log[n][2]>>
           flag == log[n][3]
           t == log[n][4]
           keys == { before.temp[i][1] : i \in 1..Len(before.temp) }
           others == SelectSeq(before.temp, LAMBDA e : e[1] # key)
           opened == CHOOSE e \in { before.temp[i] : i \in 1..Len(before.temp) } : e[1] = key
       IN IF flag = "start"
          THEN [before EXCEPT !.temp = Append(others, <<key, t>>)]
          ELSE IF flag = "end" /\ key \in keys
          THEN [pair_events |-> Append(before.pair_events, <<key[1], key[2], opened[2], t>>),
                temp |-> others]
          ELSE before

pair_events(log) == pair_loop(log, Len(log)).pair_events

\* The starts the pairing loop leaves without an end.
unpaired(log) == pair_loop(log, Len(log)).temp

\* ------------------------------------------------------------------------
\* Predicates shared by the properties.

Range(seq) == { seq[i] : i \in 1..Len(seq) }

Idle ==
  /\ cpu_busy = None /\ io_busy = None
  /\ ready_queue = <<>> /\ io_queue = <<>>

Done == pc = "done"

\* ------------------------------------------------------------------------
\* C1 as stated: on the golden workload run() logs exactly the occupancies
\* CPU:P1 [0,5), CPU:P2 [5,8), IO:P1 [5,9), CPU:P3 [8,12), IO:P2 [9,11) and
\* ends idle with time = 12.
C1_GoldenTraceAsStated ==
  (processes = GoldenWorkload /\ Done) =>
    /\ Range(pair_events(events)) =
         { <<"CPU", 1, 0, 5>>, <<"CPU", 2, 5, 8>>, <<"IO", 1, 5, 9>>,
           <<"CPU", 3, 8, 12>>, <<"IO", 2, 9, 11>> }
    /\ Idle
    /\ time = 12

\* C1 amended: on the golden workload run() logs exactly the events below,
\* i.e. the five occupancies of the claim and then CPU:P1 [12,15) for the
\* third segment of P1, and ends idle with time = 16.
C1_GoldenTrace ==
  (processes = GoldenWorkload /\ Done) =>
    /\ events =
         << <<"CPU", 1, "start", 0>>, <<"CPU", 1, "end", 5>>,
            <<"CPU", 2, "start", 5>>, <<"IO", 1, "start", 5>>,
            <<"CPU", 2, "end", 8>>, <<"CPU", 3, "start", 8>>,
            <<"IO", 1, "end", 9>>, <<"IO", 2, "start", 9>>,
            <<"IO", 2, "end", 11>>, <<"CPU", 3, "end", 12>>,
            <<"CPU", 1, "start", 12>>, <<"CPU", 1, "end", 15>> >>
    /\ pair_events(events) =
         << <<"CPU", 1, 0, 5>>, <<"CPU", 2, 5, 8>>, <<"IO", 1, 5, 9>>,
            <<"IO", 2, 9, 11>>, <<"CPU", 3, 8, 12>>, <<"CPU", 1, 12, 15>> >>
    /\ Idle
    /\ time = 16

C1_Witness == processes = GoldenWorkload /\ Done /\ Len(events) = 12

\* ------------------------------------------------------------------------
\* Sums over the log and over the workload.

RECURSIVE SumSeq(_)
SumSeq(seq) == IF seq = <<>> THEN 0 ELSE Head(seq) + SumSeq(Tail(seq))

\* The time logged for resource res: the sum of (end - start) over the pairs.
LoggedTime(res) ==
  LET mine == SelectSeq(pair_events(events), LAMBDA e : e[1] = res)
  IN SumSeq([i \in 1..Len(mine) |-> mine[i][4] - mine[i][3]])

\* The time the workload declares for kind: the durations of its segments.
DeclaredTime(kind) ==
  SumSeq([p \in 1..Len(processes) |->
            LET mine == SelectSeq(processes[p].segments, LAMBDA sg : sg.type = kind)
            IN SumSeq([i \in 1..Len(mine) |-> mine[i].duration])])

\* C2: when run() has ended, for each of CPU and IO the time logged for the
\* resource equals the time the workload declares for segments of that kind.
C2_ResourceTimeConservation ==
  Done => \A res \in {"CPU", "IO"} : LoggedTime(res) = DeclaredTime(res)

\* ------------------------------------------------------------------------
\* The events of one resource, in log order.
ResourceLog(res) == SelectSeq(events, LAMBDA e : e[1] = res)

\* The events of one (resource, pid) key, in log order.
KeyLog(res, pid) == SelectSeq(events, LAMBDA e : e[1] = res /\ e[2] = pid)

\* A log that alternates start, end, start, ... each end carrying the pid
\* and a timestamp not before those of the start it follows.
Alternates(log) ==
  \A i \in 1..Len(log) :
    IF i % 2 = 1 THEN log[i][3] = "start"
    ELSE /\ log[i][3] = "end"
         /\ log[i][2] = log[i - 1][2]
         /\ log[i][4] >= log[i - 1][4]

\* No two of the intervals [start, end) in pairs share a tick.
Disjoint(pairs) ==
  \A i, j \in 1..Len(pairs) :
    i < j => (pairs[i][4] <= pairs[j][3] \/ pairs[j][4] <= pairs[i][3])

Busy(res) == IF res = "CPU" THEN cpu_busy ELSE io_busy

\* C3: the log of each resource alternates start and end of one process at
\* a time, the occupancy intervals of a resource never overlap, and a start
\* is open exactly while the resource holds that process.
C3_MutualExclusion ==
  \A res \in {"CPU", "IO"} :
    /\ Alternates(ResourceLog(res))
    /\ Disjoint(SelectSeq(pair_events(events), LAMBDA e : e[1] = res))
    /\ (Len(ResourceLog(res)) % 2 = 1) <=> (Busy(res) # None)
    /\ Busy(res) # None =>
         ResourceLog(res)[Len(ResourceLog(res))][2] = processes[Busy(res)].pid

\* A process waits for the CPU while another holds it, after an earlier
\* occupancy has ended.
C3_Witness ==
  /\ cpu_busy # None /\ ready_queue # <<>>
  /\ Len(ResourceLog("CPU")) >= 3
  /\ io_busy # None

\* ------------------------------------------------------------------------
Pids == { processes[p].pid : p \in 1..Len(processes) }

\* C4: for every (resource, pid) key the log alternates start and end, the
\* start of a key is open only while the process holds the resource, the
\* intervals of a key never overlap, and when run() has ended the pairing
\* loop has paired every start with an end.
C4_StartEndPairing ==
  /\ \A res \in {"CPU", "IO"}, pid \in Pids :
       /\ Alternates(KeyLog(res, pid))
       /\ Disjoint(SelectSeq(pair_events(events),
                             LAMBDA e : e[1] = res /\ e[2] = pid))
       /\ Len(KeyLog(res, pid)) % 2 = 1 =>
            (Busy(res) # None /\ processes[Busy(res)].pid = pid)
  /\ 2 * Len(pair_events(events)) + Len(unpaired(events)) = Len(events)
  /\ Done => unpaired(events) = <<>>

\* run() has ended and some key was started, ended and started again.
C4_Witness ==
  /\ Done
  /\ \E res \in {"CPU", "IO"}, pid \in Pids : Len(KeyLog(res, pid)) >= 4

\* ------------------------------------------------------------------------
\* What one step appends to the log.
NewEvents == SubSeq(events', Len(events) + 1, Len(events'))

\* The step logs a start (an end) on resource res.
Started(res) == \E i \in 1..Len(NewEvents) : NewEvents[i][1] = res /\ NewEvents[i][3] = "start"

Ended(res) == \E i \in 1..Len(NewEvents) : NewEvents[i][1] = res /\ NewEvents[i][3] = "end"

\* The process the step admits to resource res, if any.
Served(res) ==
  IF Started(res) THEN << IF res = "CPU" THEN cpu_busy' ELSE io_busy' >> ELSE <<>>

\* Process p, completing its current segment, has a further segment whose
\* declared kind sends it to queue (io_queue for IO, ready_queue otherwise).
Requeued(p, queue) ==
  LET segs == processes[p].segments
      n == current_index[p] + 1
  IN /\ n < Len(segs)
     /\ queue = (IF segs[n + 1].type = "IO" THEN "io_queue" ELSE "ready_queue")

\* The processes the step appends to queue: the one leaving the CPU first,
\* then the one leaving IO.
Arrivals(queue) ==
  (IF Ended("CPU") /\ Requeued(cpu_busy, queue) THEN <<cpu_busy>> ELSE <<>>)
    \o (IF Ended("IO") /\ Requeued(io_busy, queue) THEN <<io_busy>> ELSE <<>>)

\* C5: initialize enqueues the processes in workload order; in every tick
\* the process admitted to a resource (if any) followed by the queue after
\* the tick is the queue before the tick followed by the tick's arrivals,
\* the process leaving the CPU before the one leaving IO. So a process is
\* admitted only from the head, and nobody enqueued later overtakes it.
C5_FifoFairness ==
  [][ /\ (pc = "new" /\ pc' = "loop") =>
           ready_queue' = [i \in 1..Len(processes) |-> i]
      /\ pc = "loop" =>
           /\ Served("CPU") \o ready_queue' = ready_queue \o Arrivals("ready_queue")
           /\ Served("IO") \o io_queue' = io_queue \o Arrivals("io_queue")
    ]_vars

\* A CPU completion and an IO completion of one tick fed ready_queue: the
\* process from the CPU was admitted, the one from IO waits.
C5_Witness ==
  \E i \in 1..Len(events), a, b \in 1..Len(processes) :
    /\ i + 2 = Len(events)
    /\ a # b
    /\ events[i] = <<"CPU", processes[a].pid, "end", time - 1>>
    /\ events[i + 1] = <<"IO", processes[b].pid, "end", time - 1>>
    /\ events[i + 2] = <<"CPU", processes[a].pid, "start", time - 1>>
    /\ cpu_busy = a
    /\ ready_queue = <<b>>

\* ------------------------------------------------------------------------
\* A workload with a process without segments or a duration <= 0.
Misconfigured ==
  \E p \in 1..Len(processes) :
    \/ processes[p].segments = <<>>
    \/ \E i \in 1..Len(processes[p].segments) : processes[p].segments[i].duration <= 0

\* C6: on a misconfigured workload the run never gets past initialize: no
\* tick executes, no event is logged, no process is admitted to a resource
\* and none consumes zero or negative ticks (remaining below 0).
C6_ConfigurationErrorsRejected ==
  Misconfigured =>
    /\ pc \in {"new", "raised"}
    /\ time = 0
    /\ events = <<>>
    /\ cpu_busy = None /\ io_busy = None
    /\ \A p \in 1..Len(processes) : remaining[p] >= 0

\* ------------------------------------------------------------------------
Held(p) ==
  \/ p \in Range(ready_queue) \/ p \in Range(io_queue)
  \/ p = cpu_busy \/ p = io_busy

Complete(p) == current_index[p] = Len(processes[p].segments)

\* The terminal state of run().
Terminal ==
  /\ Idle
  /\ \A p \in 1..Len(processes) : Complete(p)

\* C7: run() eventually ends, it ends only in the terminal state (both
\* resources idle, both queues empty, every process complete), and it never
\* raises on the way.
C7_Termination ==
  /\ <>Done
  /\ [](Done => Terminal)
  /\ [](pc # "raised")

\* run() has ended on a workload in which both resources were used.
C7_Witness ==
  /\ Done
  /\ Len(processes) >= 2
  /\ ResourceLog("IO") # <<>>
  /\ time >= 5

\* ------------------------------------------------------------------------
\* C8: on one process with a single segment of duration 1, run() ends with
\* time = 1 and a log of exactly one start and one end event, both on the
\* resource of the segment's kind.
C8_SingleOneTickSegment ==
  ( /\ Done
    /\ Len(processes) = 1
    /\ Len(processes[1].segments) = 1
    /\ processes[1].segments[1].duration = 1 ) =>
      /\ time = 1
      /\ Len(events) = 2
      /\ events[1][3] = "start" /\ events[2][3] = "end"
      /\ events[1][1] = processes[1].segments[1].type
      /\ events[2][1] = processes[1].segments[1].type

\* ------------------------------------------------------------------------
\* The timestamp of the last end event of the log (0 without one).
LastEnd ==
  LET ends == SelectSeq(events, LAMBDA e : e[3] = "end")
  IN IF ends = <<>> THEN 0 ELSE ends[Len(ends)][4]

\* C9: when run() has ended, time is the makespan: the timestamp of the
\* last end event.
C9_Makespan == Done => time = LastEnd

\* ------------------------------------------------------------------------
\* C10: in every step the cursor of every process stays or grows by 1,
\* never passes len(segments), grows exactly when the step logs an end event
\* of the process, and reaches len(segments) in the step in which the
\* process leaves the engine (held before, held by nothing after); a
\* process not held after initialize is complete.
C10_CursorProgress ==
  [][ \A p \in 1..Len(processes) :
        /\ current_index'[p] \in {current_index[p], current_index[p] + 1}
        /\ current_index'[p] <= Len(processes[p].segments)
        /\ (current_index'[p] = current_index[p] + 1) <=>
             (\E i \in 1..Len(NewEvents) :
                NewEvents[i][2] = processes[p].pid /\ NewEvents[i][3] = "end")
        /\ (Complete(p)' /\ ~Complete(p)) <=> (Held(p) /\ ~Held(p)')
        /\ pc' # "new" => (Complete(p)' <=> ~Held(p)')
    ]_vars

\* A process of several segments is complete and dropped while another
\* one, past its first segment, is still in the engine.
C10_Witness ==
  \E p, q \in 1..Len(processes) :
    /\ Complete(p) /\ ~Held(p) /\ Len(processes[p].segments) >= 2
    /\ Held(q) /\ current_index[q] >= 1

\* ------------------------------------------------------------------------
Queue(res) == IF res = "CPU" THEN ready_queue ELSE io_queue

QueueName(res) == IF res = "CPU" THEN "ready_queue" ELSE "io_queue"

\* C12 as stated: the log never holds an end event and a start event of the
\* same (resource, pid) with the same timestamp.
C12_NoSameTickReadmission ==
  \A i, j \in 1..Len(events) :
    ~ ( /\ events[i][3] = "end" /\ events[j][3] = "start"
        /\ events[i][1] = events[j][1]
        /\ events[i][2] = events[j][2]
        /\ events[i][4] = events[j][4] )

\* The step ends the occupancy of resource res and admits the same process
\* to it again.
Readmitted(res) ==
  /\ Ended(res) /\ Started(res)
  /\ Busy(res) # None
  /\ (IF res = "CPU" THEN cpu_busy' ELSE io_busy') = Busy(res)

\* C12 amended: a process that completes a segment on a resource is
\* admitted to that resource again in the same tick exactly when its next
\* segment sends it to the queue of that resource and nobody is ahead of it
\* there: the queue was empty before the tick and, for io_queue, the process
\* leaving the CPU in this tick does not arrive in it.
C12_SameTickReadmission ==
  [][ \A res \in {"CPU", "IO"} :
        Readmitted(res) <=>
          /\ Ended(res) /\ Busy(res) # None
          /\ Requeued(Busy(res), QueueName(res))
          /\ Queue(res) = <<>>
          /\ res = "IO" => ~(Ended("CPU") /\ Requeued(cpu_busy, "io_queue"))
    ]_vars

\* IO has just released a process and admitted it again.
C12_Witness ==
  \E i, j \in 1..Len(events) :
    /\ events[i][3] = "end" /\ events[j][3] = "start" /\ i < j
    /\ events[i][1] = "IO" /\ events[j][1] = "IO"
    /\ events[i][2] = events[j][2]
    /\ events[i][4] = events[j][4]
    /\ events[i][4] = time - 1
    /\ io_busy # None /\ events[i][2] = processes[io_busy].pid

\* ------------------------------------------------------------------------
Other(res) == IF res = "CPU" THEN "IO" ELSE "CPU"

\* Process p, completing its current segment, has a further segment, of
\* declared kind kind.
NextKind(p, kind) ==
  LET segs == processes[p].segments
      n == current_index[p] + 1
  IN n < Len(segs) /\ segs[n + 1].type = kind

\* C13: when a tick ends the occupancy of a resource by a process whose
\* next segment is of the other kind, and the other resource is idle once
\* the tick's completions are done (it was idle, or is freed in this tick),
\* and nobody is ahead of the process (the other queue was empty and, for
\* ready_queue, the process leaving the CPU in this tick is not appended to
\* it), then the tick admits the process to the other resource and logs its
\* start with the timestamp of the end.
C13_SameTickHandOver ==
  [][ \A res \in {"CPU", "IO"} :
        ( /\ Ended(res)
          /\ NextKind(Busy(res), Other(res))
          /\ Busy(Other(res)) = None \/ Ended(Other(res))
          /\ Queue(Other(res)) = <<>>
          /\ res = "IO" => ~(Ended("CPU") /\ Requeued(cpu_busy, "ready_queue")) )
        => /\ (IF res = "CPU" THEN io_busy' ELSE cpu_busy') = Busy(res)
           /\ \E i, j \in 1..Len(NewEvents) :
                /\ i < j
                /\ NewEvents[i] = <<res, processes[Busy(res)].pid, "end", time>>
                /\ NewEvents[j] = <<Other(res), processes[Busy(res)].pid, "start", time>>
    ]_vars

\* The last tick freed both resources and each process went over to the
\* resource the other one left.
C13_Witness ==
  \E a, b \in 1..Len(processes) :
    /\ a # b
    /\ Len(events) >= 4
    /\ SubSeq(events, Len(events) - 3, Len(events)) =
         << <<"CPU", processes[b].pid, "end", time - 1>>,
            <<"IO", processes[a].pid, "end", time - 1>>,
            <<"CPU", processes[a].pid, "start", time - 1>>,
            <<"IO", processes[b].pid, "start", time - 1>> >>
    /\ cpu_busy = a /\ io_busy = b

\* ------------------------------------------------------------------------
\* How often p occurs in seq.
Count(seq, p) == Cardinality({ i \in 1..Len(seq) : seq[i] = p })

\* How often the engine holds process p.
Placements(p) ==
  Count(ready_queue, p) + Count(io_queue, p)
    + (IF cpu_busy = p THEN 1 ELSE 0) + (IF io_busy = p THEN 1 ELSE 0)

\* C14: every process is held at most once, by one of ready_queue,
\* io_queue, cpu_busy and io_busy, and a complete process by none of them.
C14_SinglePlacement ==
  \A p \in 1..Len(processes) :
    /\ Placements(p) <= 1
    /\ Complete(p) => Placements(p) = 0

\* Both resources are busy and a third process is complete.
C14_Witness ==
  /\ cpu_busy # None /\ io_busy # None
  /\ \E p \in 1..Len(processes) : Complete(p)

\* ------------------------------------------------------------------------
\* The step ends an occupancy of process p.
EndedFor(p) == \E res \in {"CPU", "IO"} : Busy(res) = p /\ Ended(res)

\* C15: remaining is never negative. A process that occupies a resource
\* when a tick begins has remaining >= 1 and the tick takes exactly 1 off:
\* either the segment goes on with remaining - 1 > 0, or remaining was 1,
\* the segment completes, and the tick leaves 0 in a finished process and
\* the duration start_next loads in a process with a further segment.
C15_RemainingAccounting ==
  [][ \A p \in 1..Len(processes) :
        /\ remaining[p] >= 0 /\ remaining'[p] >= 0
        /\ (pc = "loop" /\ (p = cpu_busy \/ p = io_busy)) =>
             /\ remaining[p] >= 1
             /\ IF EndedFor(p)
                THEN /\ remaining[p] = 1
                     /\ remaining'[p] =
                          (IF Complete(p)' THEN 0
                           ELSE processes[p].segments[current_index'[p] + 1].duration)
                ELSE /\ remaining'[p] = remaining[p] - 1
                     /\ remaining'[p] > 0
    ]_vars

\* Both resources hold a process part of whose segment is done.
C15_Witness ==
  /\ cpu_busy # None /\ io_busy # None
  /\ \A p \in {cpu_busy, io_busy} :
       /\ remaining[p] >= 1
       /\ remaining[p] < processes[p].segments[current_index[p] + 1].duration

\* ------------------------------------------------------------------------
\* What resource res serves in the step, then what waits for it after it.
Flow(res) ==
  Served(res) \o (IF res = "CPU" THEN ready_queue' ELSE io_queue')

\* C16: a process that completes a segment and has a further one gets that
\* segment's duration as remaining and is appended, once, to the tail of
\* io_queue if the kind of that segment is IO and of ready_queue for any
\* other kind (behind everything that waited there before the tick), and to
\* the other queue not at all; a process without a further segment is
\* appended to neither queue.
C16_RoutingOnCompletion ==
  [][ \A res \in {"CPU", "IO"} :
        (Ended(res) /\ Busy(res) # None) =>
          LET p == Busy(res)
              segs == processes[p].segments
              n == current_index[p] + 1
              target == IF segs[n + 1].type = "IO" THEN "IO" ELSE "CPU"
          IN IF n < Len(segs)
             THEN /\ remaining'[p] = segs[n + 1].duration
                  /\ current_index'[p] = n
                  /\ Count(Flow(target), p) = 1
                  /\ Count(Flow(Other(target)), p) = 0
                  /\ \E i \in (Len(Queue(target)) + 1)..Len(Flow(target)) :
                       Flow(target)[i] = p
             ELSE /\ Count(Flow("CPU"), p) = 0
                  /\ Count(Flow("IO"), p) = 0
    ]_vars

\* A process whose current segment is of the third kind waits at the tail
\* of ready_queue, behind another one, after a segment it has completed.
C16_Witness ==
  \E p \in 1..Len(processes) :
    /\ current_index[p] >= 1 /\ ~Complete(p)
    /\ processes[p].segments[current_index[p] + 1].type = "NET"
    /\ Len(ready_queue) >= 2
    /\ ready_queue[Len(ready_queue)] = p

\* ------------------------------------------------------------------------
\* At least one tick has been completed and none has raised.
AfterTick == pc \in {"loop", "done"} /\ time >= 1

\* C17: after every completed tick, an idle CPU means an empty ready_queue
\* and an idle IO means an empty io_queue.
C17_WorkConservation ==
  AfterTick =>
    \A res \in {"CPU", "IO"} : Busy(res) = None => Queue(res) = <<>>

\* After a tick the CPU is idle with nothing to admit, while IO works and
\* another process waits for it.
C17_Witness ==
  /\ AfterTick /\ pc = "loop"
  /\ cpu_busy = None /\ ready_queue = <<>>
  /\ io_busy # None /\ io_queue # <<>>

\* ------------------------------------------------------------------------
\* The events of process p on either resource, in log order.
PidLog(p) == SelectSeq(events, LAMBDA e : e[2] = processes[p].pid)

\* C18: the k-th occupancy of a process serves its k-th segment and lasts
\* exactly that segment's duration: its end event carries the timestamp of
\* its start event plus segments[k].duration.
C18_ExactOccupancy ==
  \A p \in 1..Len(processes) :
    \A k \in 1..Len(processes[p].segments) :
      2 * k <= Len(PidLog(p)) =>
        LET start == PidLog(p)[2 * k - 1]
            end == PidLog(p)[2 * k]
        IN /\ start[3] = "start" /\ end[3] = "end"
           /\ start[1] = end[1]
           /\ end[4] = start[4] + processes[p].segments[k].duration

\* The run is over for a process that has waited in a queue and then been
\* served a segment longer than one tick, after an earlier segment.
C18_Witness ==
  /\ Done
  /\ \E p \in 1..Len(processes) :
       /\ Len(processes[p].segments) >= 2
       /\ processes[p].segments[2].duration >= 2
       /\ Len(PidLog(p)) = 2 * Len(processes[p].segments)
       /\ PidLog(p)[3][4] > PidLog(p)[2][4]

\* ------------------------------------------------------------------------
\* Sequence a is a prefix of sequence b.
IsPrefix(a, b) == Len(a) <= Len(b) /\ SubSeq(b, 1, Len(a)) = a

\* What stays of the queue of res in the step: all of it, or all but its
\* head when the resource admits that head.
Kept(res) ==
  IF Queue(res) # <<>> /\ Started(res) /\ Busy(res)' = Head(Queue(res))
  THEN Tail(Queue(res)) ELSE Queue(res)

\* C19: a tick leaves the cursor and remaining of every process waiting in
\* a queue as they were; what it leaves of each queue is the queue or its
\* tail, in the same order at the front of the queue after the tick; and
\* the log before the tick is a prefix of the log after it.
C19_TickFrame ==
  [][ time' = time + 1 =>
        /\ \A p \in Range(ready_queue) \cup Range(io_queue) :
             current_index'[p] = current_index[p] /\ remaining'[p] = remaining[p]
        /\ \A res \in {"CPU", "IO"} :
             /\ IsPrefix(Kept(res), Queue(res)')
             /\ Range(Queue(res)) \ Range(Queue(res)') \subseteq {Busy(res)'}
        /\ IsPrefix(events, events')
    ]_vars

\* The last of two ticks or more has admitted the head of ready_queue to the
\* CPU and left another process waiting there, while IO works.
C19_Witness ==
  /\ pc = "loop" /\ time >= 2
  /\ ready_queue # <<>>
  /\ cpu_busy # None /\ io_busy # None
  /\ events[Len(events)][3] = "start"
  /\ \E i \in 1..Len(events) :
       events[i] = <<"CPU", processes[cpu_busy].pid, "start", time - 1>>

\* ------------------------------------------------------------------------
\* C20: timestamps never decrease along the log; among the events of one
\* timestamp no start precedes an end, and of two ends, or of two starts,
\* the first is the CPU's and the second is IO's, so that a tick logs at
\* most one end and at most one start per resource.
C20_LogOrdering ==
  \A i, j \in 1..Len(events) :
    i < j =>
      /\ events[i][4] <= events[j][4]
      /\ events[i][4] = events[j][4] =>
           /\ ~(events[i][3] = "start" /\ events[j][3] = "end")
           /\ events[i][3] = events[j][3] =>
                events[i][1] = "CPU" /\ events[j][1] = "IO"

\* One tick has logged all four events it can log: both resources release a
\* process and both admit one.
C20_Witness ==
  \E i \in 1..(Len(events) - 3) :
    /\ \A k \in 1..3 : events[i + k][4] = events[i][4]
    /\ <<events[i][1], events[i][3]>> = <<"CPU", "end">>
    /\ <<events[i + 1][1], events[i + 1][3]>> = <<"IO", "end">>
    /\ <<events[i + 2][1], events[i + 2][3]>> = <<"CPU", "start">>
    /\ <<events[i + 3][1], events[i + 3][3]>> = <<"IO", "start">>

====
